---- MODULE Spec2Model ----
(***************************************************************************)
(* The "post" resource of service/routers/post.py: list/search, get by id, *)
(* create, update and delete over a relational table of posts, with        *)
(* ownership-based authorization.                                          *)
(*                                                                         *)
(* Three specifications are given over the same store:                     *)
(*   Spec     - get, create, update and delete, each handler one step;     *)
(*   ListSpec - create, update, delete and list, each handler one step;    *)
(*   ConcSpec - requests of several sessions interleave at the granularity *)
(*              of single store operations (read, write+commit, re-read).  *)
(***************************************************************************)
EXTENDS Integers, Sequences, FiniteSets, TLC

VARIABLES posts, issued, now, req, resp, sess

vars == <<posts, issued, now, req, resp, sess>>

(***************************************************************************)
(* Bounds of the model.                                                    *)
(***************************************************************************)
MaxUsers == 2
MaxPosts == 2
MaxLimit == 1
MaxOffset == 1
MaxSessions == 2

DefaultLimit == 10
DefaultOffset == 0

Users == 1..MaxUsers
Ids == 1..MaxPosts
Sessions == 1..MaxSessions

(***************************************************************************)
(* Text values: sequences of one-character strings.                        *)
(***************************************************************************)
Hello == <<"H", "e", "l", "l", "o">>
World == <<"W", "o", "r", "l", "d">>
Hi == <<"H", "i">>

Titles == {Hello, Hi}
Contents == {World, Hi}

\* the query parameter `search`: absent (the empty set) or one text
NoSearch == {}
Searches == {NoSearch, {<<>>}, {<<"h", "I">>}, {<<"W", "O", "R">>},
             {<<"h", "_">>}}

Limits == (0..MaxLimit) \cup {DefaultLimit}
Offsets == (0..MaxOffset) \cup {DefaultOffset}

Fields == {"title", "content"}

\* a body the schema PostCreate accepts: both fields supplied
PostCreate == {[title |-> t, content |-> c] : t \in Titles, c \in Contents}

\* request bodies on the wire: a complete one, or one supplying only a title
Bodies == PostCreate \cup {[title |-> t] : t \in Titles}

\* faulty variant: the two fields end up under each other's name
dictSwapped(payload) ==
    [f \in Fields |-> IF f = "title" THEN payload["content"] ELSE payload["title"]]

\* updated_post.dict() / new_post.dict(): every field of the schema, by name
dict(payload) == [f \in Fields |-> payload[f]]

(***************************************************************************)
(* Case-insensitive LIKE.                                                  *)
(***************************************************************************)
lower(c) ==
    CASE c = "H" -> "h"
      [] c = "I" -> "i"
      [] c = "W" -> "w"
      [] c = "O" -> "o"
      [] c = "R" -> "r"
      [] OTHER -> c

LowerText(s) == [i \in 1..Len(s) |-> lower(s[i])]

RECURSIVE like(_, _)
\* SQL LIKE: % matches any run of characters, _ matches one character
like(s, pattern) ==
    IF pattern = <<>> THEN s = <<>>
    ELSE IF Head(pattern) = "%"
         THEN like(s, Tail(pattern)) \/ (s # <<>> /\ like(Tail(s), pattern))
    ELSE IF s = <<>> THEN FALSE
    ELSE (Head(pattern) = "_" \/ Head(pattern) = Head(s))
         /\ like(Tail(s), Tail(pattern))

ilike(column, pattern) == like(LowerText(column), LowerText(pattern))

\* f"%{search}%"
SearchPattern(search) == <<"%">> \o search \o <<"%">>

(***************************************************************************)
(* The store: a table of rows, keyed by id.                                *)
(***************************************************************************)
\* faulty variant: the new row is not given the caller as owner
PostOfFirstUser(id, owner_id, title, content, created_at) ==
    [id |-> id, owner_id |-> 1, title |-> title,
     content |-> content, created_at |-> created_at]

\* models.Post(owner_id=user.id, **new_post_args)
Post(id, owner_id, title, content, created_at) ==
    [id |-> id, owner_id |-> owner_id, title |-> title,
     content |-> content, created_at |-> created_at]

\* faulty variant: the filter on the id is missing, the first row of the table is taken
QueryFirst(table, post_uuid) ==
    IF table = {} THEN {} ELSE {CHOOSE p \in table : \A q \in table : p.id <= q.id}

\* db.query(models.Post).get(uuid) / .filter(id == uuid).first():
\* the set holding the row found, empty when there is none
QueryGet(table, post_uuid) == {p \in table : p.id = post_uuid}

\* posts_query.filter(title.ilike(...) | content.ilike(...))
QueryFilter(table, search) ==
    {p \in table : ilike(p.title, SearchPattern(search))
                   \/ ilike(p.content, SearchPattern(search))}

\* .order_by(created_at): the orders the store may return the rows in
OrderBy(rows) ==
    {q \in [1..Cardinality(rows) -> rows] :
        /\ \A i, j \in DOMAIN q : i # j => q[i] # q[j]
        /\ \A i, j \in DOMAIN q : i < j => q[i].created_at <= q[j].created_at}

Min(a, b) == IF a < b THEN a ELSE b

\* .limit(limit).offset(offset): LIMIT limit OFFSET offset
LimitOffset(q, limit, offset) ==
    LET last == Min(Len(q), offset + limit)
    IN [i \in 1..(IF last > offset THEN last - offset ELSE 0) |-> q[offset + i]]

\* db.add(row); db.commit()
DbAdd(table, row) == table \cup {row}

\* faulty variant: the DELETE selects by owner instead of by id
DbDeleteByOwner(table, objs) ==
    {p \in table : \A o \in objs : p.owner_id # o.owner_id}

\* db.delete(obj); db.commit(): DELETE ... WHERE id = obj.id
DbDelete(table, objs) == {p \in table : \A o \in objs : p.id # o.id}

\* faulty variant: only the title is written, the stored content is kept
QueryUpdateTitle(table, post_uuid, argvals) ==
    {IF p.id = post_uuid THEN [p EXCEPT !.title = argvals["title"]] ELSE p :
        p \in table}

\* faulty variant: the UPDATE has lost its WHERE clause and writes every row
QueryUpdateAll(table, post_uuid, argvals) ==
    {[f \in DOMAIN p |-> IF f \in DOMAIN argvals THEN argvals[f] ELSE p[f]] :
        p \in table}

\* to_be_updated_query.update(argvals); db.commit():
\* UPDATE ... SET <each key of argvals> WHERE id = post_uuid
QueryUpdate(table, post_uuid, argvals) ==
    {IF p.id = post_uuid
        THEN [f \in DOMAIN p |-> IF f \in DOMAIN argvals THEN argvals[f] ELSE p[f]]
        ELSE p : p \in table}

\* db.refresh(obj): re-read the row of obj by its primary key
Refresh(table, objs) == {p \in table : \E o \in objs : p.id = o.id}

\* faulty variant: the authorization test is missing
AnyoneIsOwner(post, user) == TRUE

\* faulty variant: the caller is compared with the post's id instead of its owner_id
IsOwnerById(post, user) == post.id = user

\* the authorization test of delete_post and update_post
IsOwner(post, user) == post.owner_id = user

\* the identifier assigned to a new row: never one issued before.
\* Identifiers are opaque to the handlers, so they are named in order of issue.
NewIds(used) == {i \in Ids \ used : \A j \in Ids \ used : i <= j}

\* created_at of a new row: the time of its creation
Timestamps(clock) == {clock + 1}

(***************************************************************************)
(* Responses.                                                              *)
(***************************************************************************)
Response(status, body) == [status |-> status, body |-> body]
NoBody == <<>>

Exception404NoId == Response(404, NoBody)
Exception403 == Response(403, NoBody)
Exception422 == Response(422, NoBody)

(***************************************************************************)
(* Requests and the handlers, each handler as one atomic step.             *)
(* req.kind names the handler that ran, "none" when the body was rejected  *)
(* before any handler ran; req.route names the route requested.            *)
(***************************************************************************)
Request(route, kind, user, id, body, search, limit, offset) ==
    [route |-> route, kind |-> kind, user |-> user, id |-> id, body |-> body,
     search |-> search, limit |-> limit, offset |-> offset]

NoRequest == Request("none", "none", 0, 0, <<>>, NoSearch, 0, 0)

get_posts(user, limit, offset, search) ==
    /\ req' = Request("GET /post/all", "list", user, 0, <<>>, search, limit, offset)
    /\ LET posts_query == IF search # NoSearch /\ search # {<<>>}
                          THEN QueryFilter(posts, CHOOSE s \in search : TRUE)
                          ELSE posts
       IN \E q \in OrderBy(posts_query) :
              resp' = Response(200, LimitOffset(q, limit, offset))
    /\ UNCHANGED <<posts, issued, now, sess>>

get_post(user, post_uuid) ==
    /\ req' = Request("GET /post/{id}", "get", user, post_uuid, <<>>, NoSearch, 0, 0)
    /\ LET post == QueryGet(posts, post_uuid)
       IN IF post = {}
          THEN resp' = Exception404NoId
          ELSE \E p \in post : resp' = Response(200, p)
    /\ UNCHANGED <<posts, issued, now, sess>>

create_post(user, new_post) ==
    /\ req' = Request("POST /post/", "create", user, 0, new_post, NoSearch, 0, 0)
    /\ \E id \in NewIds(issued), t \in Timestamps(now) :
         LET new_post_args == dict(new_post)
             new_db_post == Post(id, user, new_post_args["title"],
                                 new_post_args["content"], t)
         IN /\ posts' = DbAdd(posts, new_db_post)
            /\ issued' = issued \cup {id}
            /\ now' = t
            /\ \E p \in Refresh(posts', {new_db_post}) : resp' = Response(201, p)
    /\ UNCHANGED sess

delete_post(user, post_uuid) ==
    /\ req' = Request("DELETE /post/{id}", "delete", user, post_uuid, <<>>,
                      NoSearch, 0, 0)
    /\ LET to_be_deleted == QueryGet(posts, post_uuid)
       IN IF to_be_deleted = {}
          THEN resp' = Exception404NoId /\ posts' = posts
          ELSE IF \E p \in to_be_deleted : ~IsOwner(p, user)
          THEN resp' = Exception403 /\ posts' = posts
          ELSE /\ posts' = DbDelete(posts, to_be_deleted)
               /\ resp' = Response(204, NoBody)
    /\ UNCHANGED <<issued, now, sess>>

update_post(user, post_uuid, updated_post) ==
    /\ req' = Request("PUT /post/{id}", "update", user, post_uuid, updated_post,
                      NoSearch, 0, 0)
    /\ LET to_be_updated == QueryGet(posts, post_uuid)
       IN IF to_be_updated = {}
          THEN resp' = Exception404NoId /\ posts' = posts
          ELSE IF \E p \in to_be_updated : ~IsOwner(p, user)
          THEN resp' = Exception403 /\ posts' = posts
          ELSE LET argvals == dict(updated_post)
               IN /\ posts' = QueryUpdate(posts, post_uuid, argvals)
                  /\ \E p \in Refresh(posts', to_be_updated) :
                         resp' = Response(200, p)
    /\ UNCHANGED <<issued, now, sess>>

\* a body the schema rejects never reaches create_post or update_post
RejectBody(route, user, post_uuid, body) ==
    /\ body \notin PostCreate
    /\ req' = Request(route, "none", user, post_uuid, body, NoSearch, 0, 0)
    /\ resp' = Exception422
    /\ UNCHANGED <<posts, issued, now, sess>>

(***************************************************************************)
(* Sessions: the same handlers, one store operation per step (ConcSpec).   *)
(* pc is the store operation the session runs next; obj is the ORM object  *)
(* the session holds (to_be_updated, to_be_deleted, new_db_post).          *)
(***************************************************************************)
Session(pc, kind, user, id, body, obj, status) ==
    [pc |-> pc, kind |-> kind, user |-> user, id |-> id, body |-> body,
     obj |-> obj, status |-> status]

NoSession == Session("idle", "none", 0, 0, <<>>, {}, 0)

Done(kind, user, id, status) == Session("done", kind, user, id, <<>>, {}, status)

Free(s) == sess[s].pc \in {"idle", "done"}

\* create_post: db.add(new_db_post); db.commit()
CreateAdd(s, user, new_post) ==
    /\ Free(s)
    /\ \E id \in NewIds(issued), t \in Timestamps(now) :
         LET new_post_args == dict(new_post)
             new_db_post == Post(id, user, new_post_args["title"],
                                 new_post_args["content"], t)
         IN /\ posts' = DbAdd(posts, new_db_post)
            /\ issued' = issued \cup {id}
            /\ now' = t
            /\ sess' = [sess EXCEPT ![s] =
                          Session("refresh", "create", user, id, <<>>,
                                  {new_db_post}, 0)]
    /\ UNCHANGED <<req, resp>>

\* delete_post: the read and the two tests on its result
DeleteQuery(s, user, post_uuid) ==
    /\ Free(s)
    /\ LET to_be_deleted == QueryGet(posts, post_uuid)
       IN sess' = [sess EXCEPT ![s] =
            IF to_be_deleted = {}
            THEN Done("delete", user, post_uuid, 404)
            ELSE IF \E p \in to_be_deleted : ~IsOwner(p, user)
            THEN Done("delete", user, post_uuid, 403)
            ELSE Session("delete", "delete", user, post_uuid, <<>>,
                         to_be_deleted, 0)]
    /\ UNCHANGED <<posts, issued, now, req, resp>>

\* delete_post: db.delete(to_be_deleted); db.commit().  A DELETE that matches
\* no row (the row is already gone) is reported by a warning, not an error.
DeleteCommit(s) ==
    /\ sess[s].pc = "delete"
    /\ posts' = DbDelete(posts, sess[s].obj)
    /\ sess' = [sess EXCEPT ![s] = Done("delete", sess[s].user, sess[s].id, 204)]
    /\ UNCHANGED <<issued, now, req, resp>>

\* update_post: the read and the two tests on its result
UpdateQuery(s, user, post_uuid, updated_post) ==
    /\ Free(s)
    /\ LET to_be_updated == QueryGet(posts, post_uuid)
       IN sess' = [sess EXCEPT ![s] =
            IF to_be_updated = {}
            THEN Done("update", user, post_uuid, 404)
            ELSE IF \E p \in to_be_updated : ~IsOwner(p, user)
            THEN Done("update", user, post_uuid, 403)
            ELSE Session("update", "update", user, post_uuid, updated_post,
                         to_be_updated, 0)]
    /\ UNCHANGED <<posts, issued, now, req, resp>>

\* update_post: to_be_updated_query.update(argvals); db.commit().
\* An UPDATE that matches no row changes nothing and raises nothing.
UpdateCommit(s) ==
    /\ sess[s].pc = "update"
    /\ posts' = QueryUpdate(posts, sess[s].id, dict(sess[s].body))
    /\ sess' = [sess EXCEPT ![s].pc = "refresh"]
    /\ UNCHANGED <<issued, now, req, resp>>

\* db.refresh(obj) of create_post and update_post, and the return.
\* Refreshing an object whose row is gone raises InvalidRequestError, which no
\* handler catches: the request ends with a server error.
RefreshReturn(s) ==
    /\ sess[s].pc = "refresh"
    /\ sess' = [sess EXCEPT ![s] =
         Done(sess[s].kind, sess[s].user, sess[s].id,
              IF Refresh(posts, sess[s].obj) = {} THEN 500
              ELSE IF sess[s].kind = "create" THEN 201 ELSE 200)]
    /\ UNCHANGED <<posts, issued, now, req, resp>>

(***************************************************************************)
(* The specifications.                                                     *)
(***************************************************************************)
Init ==
    /\ posts = {}
    /\ issued = {}
    /\ now = 0
    /\ req = NoRequest
    /\ resp = Response(0, NoBody)
    /\ sess = [s \in Sessions |-> NoSession]

ListStep == \E u \in Users, l \in Limits, o \in Offsets, s \in Searches :
                get_posts(u, l, o, s)
GetStep == \E u \in Users, i \in Ids : get_post(u, i)
CreateStep == \E u \in Users, b \in PostCreate : create_post(u, b)
DeleteStep == \E u \in Users, i \in Ids : delete_post(u, i)
UpdateStep == \E u \in Users, i \in Ids, b \in PostCreate : update_post(u, i, b)
RejectCreateStep == \E u \in Users, b \in Bodies : RejectBody("POST /post/", u, 0, b)
RejectUpdateStep == \E u \in Users, i \in Ids, b \in Bodies :
                        RejectBody("PUT /post/{id}", u, i, b)

Next ==
    \/ GetStep
    \/ CreateStep
    \/ DeleteStep
    \/ UpdateStep
    \/ RejectCreateStep
    \/ RejectUpdateStep

Spec == Init /\ [][Next]_vars

ListNext ==
    \/ ListStep
    \/ CreateStep
    \/ DeleteStep
    \/ UpdateStep

ListSpec == Init /\ [][ListNext]_vars

ConcNext ==
    \/ \E s \in Sessions, u \in Users, b \in PostCreate : CreateAdd(s, u, b)
    \/ \E s \in Sessions, u \in Users, i \in Ids : DeleteQuery(s, u, i)
    \/ \E s \in Sessions : DeleteCommit(s)
    \/ \E s \in Sessions, u \in Users, i \in Ids, b \in PostCreate :
           UpdateQuery(s, u, i, b)
    \/ \E s \in Sessions : UpdateCommit(s)
    \/ \E s \in Sessions : RefreshReturn(s)

ConcSpec == Init /\ [][ConcNext]_vars

(***************************************************************************)
(* Well-formedness of the store.                                           *)
(***************************************************************************)
Present(table, id) == \E p \in table : p.id = id

TypeOK ==
    /\ \A p \in posts : p.id \in issued /\ p.owner_id \in Users
                        /\ p.created_at <= now
    /\ \A p, q \in posts : p.id = q.id => p = q

Row(table, id) == CHOOSE p \in table : p.id = id

RanHandler(kinds) == req'.kind \in kinds

(***************************************************************************)
(* C1: every change to an existing post and every removal of a post is     *)
(* made by an update or delete request of the post's owner for that post;  *)
(* an update or delete request by anyone else leaves the store as it was.  *)
(***************************************************************************)
OnlyOwnerChangesStep ==
    /\ \A p \in posts :
         p \notin posts' =>
            /\ RanHandler({"update", "delete"})
            /\ req'.id = p.id
            /\ req'.user = p.owner_id
    /\ \A p \in posts :
         (req'.route \in {"PUT /post/{id}", "DELETE /post/{id}"}
            /\ req'.id = p.id /\ req'.user # p.owner_id) => posts' = posts

OnlyOwnerChanges == [][OnlyOwnerChangesStep]_vars

\* a request of a non-owner was refused while the post is in the store
OnlyOwnerChangesWitness ==
    /\ req.kind = "update"
    /\ resp.status = 403
    /\ \E p \in posts : p.id = req.id /\ p.owner_id # req.user
                        /\ p.title # req.body["title"]

(***************************************************************************)
(* C2: the owner_id of every post in the store is the caller of the create *)
(* request that inserted it: a new row carries its creator as owner_id and *)
(* no request changes the owner_id of a row.                               *)
(***************************************************************************)
OwnerIsCreatorStep ==
    \A p \in posts' :
        \/ \E q \in posts : q.id = p.id /\ q.owner_id = p.owner_id
        \/ /\ RanHandler({"create"})
           /\ ~Present(posts, p.id)
           /\ p.owner_id = req'.user

OwnerIsCreator == [][OwnerIsCreatorStep]_vars

\* the owner updated a post that a different user could have created
OwnerIsCreatorWitness ==
    /\ req.kind = "update"
    /\ resp.status = 200
    /\ resp.body.owner_id = req.user
    /\ \E p \in posts : p.owner_id # req.user

(***************************************************************************)
(* C3: an update or delete of an existing post by a caller who is not its  *)
(* owner ends with 403 and leaves the store as it was: the post is still   *)
(* returned by get-by-id, with the title and content it had.               *)
(***************************************************************************)
NonOwnerRefusedStep ==
    \A p \in posts :
        (RanHandler({"update", "delete"}) /\ req'.id = p.id
            /\ req'.user # p.owner_id) =>
            /\ resp' = Exception403
            /\ posts' = posts
            /\ QueryGet(posts', req'.id) = {p}

NonOwnerRefused == [][NonOwnerRefusedStep]_vars

\* a delete by a non-owner was refused and the post is still there
NonOwnerRefusedWitness ==
    /\ req.kind = "delete"
    /\ resp.status = 403
    /\ \E p \in posts : p.id = req.id /\ p.owner_id # req.user

(***************************************************************************)
(* C4: a delete by the owner of an existing post removes that post and no  *)
(* other, a removed post never comes back, and every later get-by-id for   *)
(* its identifier ends with 404.                                           *)
(***************************************************************************)
Deleted(table, used) == {i \in used : ~Present(table, i)}

OwnerDeleteRemovesStep ==
    /\ \A p \in posts :
         (RanHandler({"delete"}) /\ req'.id = p.id /\ req'.user = p.owner_id) =>
            /\ posts' = posts \ {p}
            /\ resp'.status = 204
    /\ Deleted(posts, issued) \subseteq Deleted(posts', issued')
    /\ (RanHandler({"get"}) /\ req'.id \in Deleted(posts, issued)) =>
            resp' = Exception404NoId

OwnerDeleteRemoves == [][OwnerDeleteRemovesStep]_vars

\* a get-by-id for a deleted post, while another post is in the store
OwnerDeleteRemovesWitness ==
    /\ req.kind = "get"
    /\ req.id \in Deleted(posts, issued)
    /\ resp.status = 404
    /\ posts # {}

(***************************************************************************)
(* C5: get-by-id, update and delete of an identifier no post has end with  *)
(* 404 (never 403) and leave the store as it was, whoever the caller is.   *)
(***************************************************************************)
AbsentIsNotFoundStep ==
    (RanHandler({"get", "update", "delete"}) /\ ~Present(posts, req'.id)) =>
        /\ resp' = Exception404NoId
        /\ posts' = posts

AbsentIsNotFound == [][AbsentIsNotFoundStep]_vars

\* an update of an absent identifier ended with 404 while other posts exist
AbsentIsNotFoundWitness ==
    /\ req.kind = "update"
    /\ ~Present(posts, req.id)
    /\ resp.status = 404
    /\ posts # {}

(***************************************************************************)
(* C6, as claimed: an update request by the owner that supplies only a new *)
(* title changes the title and keeps the previous content; on the post     *)
(* {Hello, World}, the body {title: Hi} leaves {Hi, World}.                *)
(***************************************************************************)
TitleOnlyUpdateKeepsContentStep ==
    \A p \in posts :
        (req'.route = "PUT /post/{id}" /\ req'.id = p.id
            /\ req'.user = p.owner_id /\ DOMAIN req'.body = {"title"}) =>
            /\ Present(posts', p.id)
            /\ Row(posts', p.id).title = req'.body["title"]
            /\ Row(posts', p.id).content = p.content

TitleOnlyUpdateKeepsContent == [][TitleOnlyUpdateKeepsContentStep]_vars

(***************************************************************************)
(* C6, amended: an update by the owner replaces both the title and the     *)
(* content by the submitted values, whatever the post held before: the     *)
(* previous content stays only when it is submitted again.  The response   *)
(* and a get-by-id that follows return the submitted title and content.    *)
(***************************************************************************)
UpdateReplacesBothStep ==
    /\ \A p \in posts :
         (RanHandler({"update"}) /\ req'.id = p.id /\ req'.user = p.owner_id) =>
            /\ DOMAIN req'.body = Fields
            /\ resp'.status = 200
            /\ resp'.body.title = req'.body["title"]
            /\ resp'.body.content = req'.body["content"]
            /\ QueryGet(posts', p.id) = {resp'.body}
    /\ (req.kind = "update" /\ resp.status = 200
           /\ RanHandler({"get"}) /\ req'.id = req.id) =>
            /\ resp'.status = 200
            /\ resp'.body.title = req.body["title"]
            /\ resp'.body.content = req.body["content"]

UpdateReplacesBoth == [][UpdateReplacesBothStep]_vars

\* an update by the owner with {Hi, World} was answered with the stored {Hi, World}
UpdateReplacesBothWitness ==
    /\ req.kind = "update"
    /\ req.body = [title |-> Hi, content |-> World]
    /\ resp.status = 200
    /\ resp.body.title = Hi
    /\ resp.body.content = World
    /\ QueryGet(posts, req.id) = {resp.body}

(***************************************************************************)
(* C7: a successful update overwrites the title and content of the post it *)
(* targets with the submitted values, leaves that post's id, owner_id and  *)
(* created_at as they were, and leaves every other post as it was.         *)
(***************************************************************************)
UpdateFrameStep ==
    (RanHandler({"update"}) /\ resp'.status = 200) =>
        \E p \in posts :
            /\ p.id = req'.id
            /\ posts' = (posts \ {p}) \cup
                   {[id |-> p.id, owner_id |-> p.owner_id,
                     created_at |-> p.created_at,
                     title |-> req'.body["title"],
                     content |-> req'.body["content"]]}

UpdateFrame == [][UpdateFrameStep]_vars

\* an update changed both fields of one post while another post is in the store
UpdateFrameWitness ==
    /\ req.kind = "update"
    /\ resp.status = 200
    /\ Cardinality(posts) = 2
    /\ \E p \in posts : p.id # req.id /\ p.title # req.body["title"]
                        /\ p.content # req.body["content"]

(***************************************************************************)
(* C8, as claimed: list returns the posts whose title or content contains  *)
(* the search text, compared case-insensitively (all posts without a       *)
(* search), in ascending order of created_at, without the first `offset`   *)
(* of them and at most `limit` of them; it does not change the store.      *)
(***************************************************************************)
Contains(text, sub) ==
    \E k \in 0..(Len(text) - Len(sub)) :
        \A i \in 1..Len(sub) : lower(text[k + i]) = lower(sub[i])

Matching(table, search) ==
    IF search = NoSearch THEN table
    ELSE {p \in table : \E s \in search : Contains(p.title, s) \/ Contains(p.content, s)}

Ascending(q) == \A i, j \in DOMAIN q : i < j => q[i].created_at < q[j].created_at

IsPage(page, rows, limit, offset) ==
    \E q \in [1..Cardinality(rows) -> rows] :
        /\ {q[i] : i \in DOMAIN q} = rows
        /\ Ascending(q)
        /\ Len(page) = (IF Len(q) - offset < 0 THEN 0
                        ELSE IF Len(q) - offset < limit THEN Len(q) - offset
                        ELSE limit)
        /\ \A i \in DOMAIN page : page[i] = q[offset + i]

ListIsSubstringPageStep ==
    RanHandler({"list"}) =>
        /\ posts' = posts
        /\ IsPage(resp'.body, Matching(posts, req'.search), req'.limit, req'.offset)

ListIsSubstringPage == [][ListIsSubstringPageStep]_vars

(***************************************************************************)
(* C9: create inserts one new post, under an identifier no post has or had,*)
(* with the submitted title and content and the caller as owner, and       *)
(* changes no existing post; a get-by-id that follows the create, for the  *)
(* identifier it returned, returns that title, content and owner.          *)
(***************************************************************************)
CreateThenGetStep ==
    /\ RanHandler({"create"}) =>
         /\ resp'.status = 201
         /\ resp'.body.id \notin issued
         /\ ~Present(posts, resp'.body.id)
         /\ resp'.body.title = req'.body["title"]
         /\ resp'.body.content = req'.body["content"]
         /\ resp'.body.owner_id = req'.user
         /\ posts' = posts \cup {resp'.body}
    /\ (req.kind = "create" /\ RanHandler({"get"}) /\ req'.id = resp.body.id) =>
         /\ resp'.status = 200
         /\ resp'.body.id = req'.id
         /\ resp'.body.title = req.body["title"]
         /\ resp'.body.content = req.body["content"]
         /\ resp'.body.owner_id = req.user

CreateThenGet == [][CreateThenGetStep]_vars

\* a post created after the first one is read back by a user who is not its owner
CreateThenGetWitness ==
    /\ req.kind = "get"
    /\ resp.status = 200
    /\ resp.body.created_at > 1
    /\ resp.body.owner_id # req.user
    /\ Cardinality(posts) = 2

(***************************************************************************)
(* C10, as claimed: with requests interleaved store operation by store     *)
(* operation, every update and delete ends in success, 404 or 403, and a   *)
(* post becomes present only by a create and absent only by a delete; a    *)
(* removed post never becomes present again.                               *)
(***************************************************************************)
EndsAsDocumented ==
    \A s \in Sessions :
        (sess[s].pc = "done" /\ sess[s].kind \in {"update", "delete"}) =>
            sess[s].status \in {200, 204, 403, 404}

PresenceStep ==
    \A i \in Ids :
        /\ (~Present(posts, i) /\ Present(posts', i)) =>
              /\ i \notin issued
              /\ \E s \in Sessions : Free(s) /\ sess'[s].kind = "create"
                                     /\ sess'[s].id = i
        /\ (Present(posts, i) /\ ~Present(posts', i)) =>
              \E s \in Sessions : sess[s].pc = "delete" /\ sess[s].id = i
                                  /\ sess'[s].pc = "done"

InterleavedRequestsEndAsDocumented == [][EndsAsDocumented' /\ PresenceStep]_vars
====
